---- MODULE Spec2Model ----
(***************************************************************************)
(* Model of gemini-context-setup/create_context_file.py: the command line  *)
(* entry point (main), the aggregator (create_context_file) and the        *)
(* inclusion filter (should_include_file and its helpers).                 *)
(*                                                                         *)
(* A Python str is a sequence of one-character strings, so that str        *)
(* comparison, re.search, fnmatch and Path arithmetic are computed on      *)
(* characters as the interpreter computes them.                            *)
(***************************************************************************)
EXTENDS Integers, Sequences, FiniteSets, TLC

VARIABLES
    cwd,               \* working directory of the process
    disk,              \* regular files on disk: absolute path -> [size, content]
    context_ignore,    \* pattern lines of <root>/.context-ignore ("/r" only)
    pc,                \* "main" | "scan" | "loop" | "done" | "aborted"
    user_exclude,      \* the -e values as typed (history of the command line)
    root_dir,          \* create_context_file: root_dir
    output_file,       \* create_context_file: output_file (the raw -o string)
    exclude_patterns,  \* create_context_file: exclude_patterns
    include_patterns,  \* create_context_file: include_patterns
    ignore_patterns,   \* create_context_file: ignore_patterns
    discovered,        \* the regular files the glob found (before -i filtering)
    glob_sorted,       \* whether the glob returned them in sorted order
    all_files,         \* the candidates, in the order the loop visits them
    idx,               \* number of loop iterations started
    processed_files,
    skipped_files,
    ignored_files,
    total_size,
    out,               \* the blocks written to the output file, in order
    summary,           \* the four numbers of the summary block, once written
    handled            \* one record per loop iteration, in order (history)

vars == <<cwd, disk, context_ignore, pc, user_exclude, root_dir, output_file,
          exclude_patterns, include_patterns, ignore_patterns, discovered,
          glob_sorted, all_files, idx, processed_files, skipped_files,
          ignored_files, total_size, out, summary, handled>>

----------------------------------------------------------------------------
(* Bounds of the model.                                                    *)

MaxUserExcludes == 1     \* number of -e flags on the command line
MaxIgnoreLines == 1      \* number of pattern lines in .context-ignore
MaxIncludes == 1         \* number of -i flags on the command line

----------------------------------------------------------------------------
(* Python str: characters, ordering, substrings.                           *)

\* The characters in use, in code point order.
Alphabet == <<"$", "*", "-", ".", "/", "[", "\\", "_",
              "a", "b", "c", "d", "e", "f", "g", "h", "i", "j", "k", "l", "m",
              "n", "o", "p", "q", "r", "s", "t", "u", "v", "w", "x", "y", "z">>

\* ord(c), up to an order-preserving renumbering.
Ord == [c \in {Alphabet[i] : i \in 1..Len(Alphabet)} |->
           CHOOSE i \in 1..Len(Alphabet) : Alphabet[i] = c]

RECURSIVE StrLess(_, _)
\* s < t for two str values (lexicographic by code point).
StrLess(s, t) ==
    IF t = <<>> THEN FALSE
    ELSE IF s = <<>> THEN TRUE
    ELSE IF Head(s) = Head(t) THEN StrLess(Tail(s), Tail(t))
    ELSE Ord[Head(s)] < Ord[Head(t)]

StartsWith(s, p) == Len(p) <= Len(s) /\ SubSeq(s, 1, Len(p)) = p

EndsWith(s, p) == Len(p) <= Len(s) /\ SubSeq(s, Len(s) - Len(p) + 1, Len(s)) = p

Contains(s, p) == \E i \in 1..(Len(s) - Len(p) + 1) : SubSeq(s, i, i + Len(p) - 1) = p

Drop(s, n) == SubSeq(s, n + 1, Len(s))

----------------------------------------------------------------------------
(* re.search for the regex syntax the program is given: literal            *)
(* characters, backslash escapes, a final "$" and an unterminated "[".     *)

ReEscaped(p, i) == i > 1 /\ p[i - 1] = "\\" /\ ~(i > 2 /\ p[i - 2] = "\\")

\* re.compile raises re.error ("unterminated character set").
ReError(p) == \E i \in 1..Len(p) : p[i] = "[" /\ ~ReEscaped(p, i)

ReAnchored(p) == Len(p) > 0 /\ p[Len(p)] = "$" /\ ~ReEscaped(p, Len(p))

RECURSIVE ReLiteral(_)
ReLiteral(p) ==
    IF p = <<>> THEN <<>>
    ELSE IF Head(p) = "\\" /\ Len(p) > 1 THEN <<p[2]>> \o ReLiteral(Drop(p, 2))
    ELSE <<Head(p)>> \o ReLiteral(Tail(p))

RECURSIVE FnMatch(_, _)
\* fnmatch.fnmatch(name, pat) for patterns of literal characters and "*".
FnMatch(name, pat) ==
    IF pat = <<>> THEN name = <<>>
    ELSE IF Head(pat) = "*"
         THEN \E k \in 0..Len(name) : FnMatch(Drop(name, k), Tail(pat))
         ELSE name # <<>> /\ Head(name) = Head(pat) /\ FnMatch(Tail(name), Tail(pat))

----------------------------------------------------------------------------
(* Paths and the file system.                                              *)

Slash == <<"/">>

Join(dir, rel) == dir \o Slash \o rel

IsAbsolute(p) == p # <<>> /\ p[1] = "/"

RootR == <<"/", "r">>
RootW == <<"/", "w">>
Dot == <<".">>

\* Path(args.directory).resolve()
Resolve(directory) == IF IsAbsolute(directory) THEN directory
                      ELSE IF directory = Dot THEN cwd
                      ELSE Join(cwd, directory)

\* The file that open(output_file, 'w') creates.
OutputPath(o) == IF IsAbsolute(o) THEN o ELSE Join(cwd, o)

ContextIgnoreName == <<".", "c", "o", "n", "t", "e", "x", "t", "-", "i", "g", "n", "o", "r", "e">>

\* The tree under /r (directory /w is empty).
FileEnv == Join(RootR, <<".", "e", "n", "v">>)
FileA == Join(RootR, <<"a">>)
FileB == Join(RootR, <<"b">>)
FileDN == Join(RootR, <<"d", "/", "n">>)

Tree == (FileEnv :> [size |-> 10, content |-> "text"])
     @@ (FileA :> [size |-> 1000000, content |-> "text"])
     @@ (FileB :> [size |-> 1000001, content |-> "text"])
     @@ (FileDN :> [size |-> 10, content |-> "nul"])

\* The last component of a path and its suffix (Path.name, Path.suffix).
RECURSIVE Name(_)
Name(p) == IF ~Contains(p, Slash) THEN p ELSE Name(Tail(p))

Suffix(n) ==
    LET dots == {i \in 2..Len(n) : n[i] = "."} IN
    IF dots = {} THEN <<>>
    ELSE Drop(n, (CHOOSE i \in dots : \A j \in dots : j <= i) - 1)

\* mimetypes.guess_type(str(path))[0]: "text", "other" or "none".
GuessType(p) ==
    LET ext == Suffix(Name(p)) IN
    IF ext = <<".", "t", "x", "t">> THEN "text"
    ELSE IF ext = <<".", "p", "n", "g">> THEN "other"
    ELSE "none"

----------------------------------------------------------------------------
(* Command line.                                                           *)

\* The default of -e/--exclude (".DS_Store" is written in lower case here:
\* no path of the model contains it).
DefaultExclude == <<
    <<"\\", ".", "g", "i", "t">>,
    <<"_", "_", "p", "y", "c", "a", "c", "h", "e", "_", "_">>,
    <<"\\", ".", "p", "y", "c", "$">>,
    <<"\\", ".", "d", "s", "_", "s", "t", "o", "r", "e", "$">>,
    <<"n", "o", "d", "e", "_", "m", "o", "d", "u", "l", "e", "s">>,
    <<"\\", ".", "v", "e", "n", "v">>,
    <<"v", "e", "n", "v">>,
    <<"\\", ".", "e", "n", "v">>,
    <<"\\", ".", "i", "d", "e", "a">>,
    <<"\\", ".", "v", "s", "c", "o", "d", "e">>,
    <<"d", "i", "s", "t">>,
    <<"b", "u", "i", "l", "d">>,
    <<"c", "o", "v", "e", "r", "a", "g", "e">>,
    <<"\\", ".", "c", "o", "v", "e", "r", "a", "g", "e">>,
    <<"\\", ".", "p", "y", "t", "e", "s", "t", "_", "c", "a", "c", "h", "e">>,
    <<"\\", ".", "t", "o", "x">> >>

\* The default of -o/--output: gemini_context.txt
DefaultOutput == <<"g", "e", "m", "i", "n", "i", "_", "c", "o", "n", "t", "e", "x", "t", ".", "t", "x", "t">>

\* What the user may type.
Directories == {Dot, RootR}
Outputs == {DefaultOutput, <<"o">>, Join(RootR, <<"o">>), Join(RootR, <<"d", "/", "o">>)}
ExcludePool == {<<"d">>, <<"[">>}
IncludePool == {<<"d">>}
IgnorePool == {<<"d", "/">>, <<"*", ".", "e", "n", "v">>}

\* re.compile, which re.search goes through (re caches compiled patterns).
KnownPatterns == {DefaultExclude[i] : i \in 1..Len(DefaultExclude)} \cup ExcludePool \cup IncludePool

ReCompile == [p \in KnownPatterns |->
    [error |-> ReError(p),
     anchored |-> ReAnchored(p),
     literal |-> ReLiteral(IF ReAnchored(p) THEN SubSeq(p, 1, Len(p) - 1) ELSE p)]]

\* re.search(p, s): "match" | "nomatch" | "error" (re.error is raised)
ReSearch(p, s) ==
    LET c == ReCompile[p] IN
    IF c.error THEN "error"
    ELSE IF c.anchored THEN (IF EndsWith(s, c.literal) THEN "match" ELSE "nomatch")
    ELSE (IF Contains(s, c.literal) THEN "match" ELSE "nomatch")

SeqsUpTo(S, n) == UNION {[1..k -> S] : k \in 0..n}

\* Variant: the -e values replace the default list.
ParseExclude_Replacing(given) == IF given # <<>> THEN given ELSE DefaultExclude

\* argparse, action='append' with a list default: the values are appended to
\* a copy of the default list.
ParseExclude(given) == DefaultExclude \o given

\* argparse, action='append' without default: None when the flag is absent
\* (None and [] are both falsy at the only place the value is read).
ParseInclude(given) == given

----------------------------------------------------------------------------
(* The inclusion filter.                                                   *)

MaxFileSize == 1000000

\* file_path.relative_to(root_dir), falling back to str(file_path).
RelPath(f) == IF StartsWith(f, root_dir \o Slash) THEN Drop(f, Len(root_dir) + 1) ELSE f

\* Variant: a directory pattern matches the directory itself only.
IgnorePatternMatches_NoPrefix(rel, pattern) ==
    IF EndsWith(pattern, Slash)
    THEN rel = SubSeq(pattern, 1, Len(pattern) - 1)
    ELSE FnMatch(rel, pattern) \/ rel = pattern

\* One turn of the loop of is_ignored_by_patterns.
IgnorePatternMatches(rel, pattern) ==
    IF EndsWith(pattern, Slash)
    THEN LET dir_pattern == SubSeq(pattern, 1, Len(pattern) - 1) IN
         rel = dir_pattern \/ StartsWith(rel, dir_pattern \o Slash)
    ELSE FnMatch(rel, pattern) \/ rel = pattern

IsIgnoredByPatterns(f) ==
    IF ignore_patterns = <<>> THEN FALSE
    ELSE \E i \in 1..Len(ignore_patterns) : IgnorePatternMatches(RelPath(f), ignore_patterns[i])

RECURSIVE ExcludeLoop(_, _)
\* The loop over exclude_patterns: "match" at the first pattern that matches,
\* "error" if re.search raises before that, "nomatch" otherwise.
ExcludeLoop(patterns, s) ==
    IF patterns = <<>> THEN "nomatch"
    ELSE LET r == ReSearch(Head(patterns), s) IN
         IF r = "nomatch" THEN ExcludeLoop(Tail(patterns), s) ELSE r

\* fault = "probe": open() fails in the probe, which is_binary_file catches.
IsBinaryFile(f, fault) ==
    IF GuessType(f) = "other" THEN TRUE
    ELSE IF fault = "probe" THEN TRUE
    ELSE disk[f].content # "text"

\* Variant: a matching exclude regex does not end the filter.
ShouldIncludeFile_MatchNotFinal(f, fault) ==
    IF ExcludeLoop(exclude_patterns, f) = "error" THEN "raise"
    ELSE IF IsIgnoredByPatterns(f) THEN "false"
    ELSE IF IsBinaryFile(f, fault) THEN "false"
    ELSE IF fault = "size" THEN "raise"
    ELSE IF disk[f].size > MaxFileSize THEN "false"
    ELSE "true"

\* Variant: the size check rejects a file of exactly the threshold.
ShouldIncludeFile_SizeInclusive(f, fault) ==
    IF ExcludeLoop(exclude_patterns, f) = "error" THEN "raise"
    ELSE IF ExcludeLoop(exclude_patterns, f) = "match" THEN "false"
    ELSE IF IsIgnoredByPatterns(f) THEN "false"
    ELSE IF IsBinaryFile(f, fault) THEN "false"
    ELSE IF fault = "size" THEN "raise"
    ELSE IF disk[f].size >= MaxFileSize THEN "false"
    ELSE "true"

\* "true" | "false" | "raise".  fault = "size": file_path.stat() raises.
ShouldIncludeFile(f, fault) ==
    LET e == ExcludeLoop(exclude_patterns, f) IN
    IF e = "error" THEN "raise"
    ELSE IF e = "match" THEN "false"
    ELSE IF IsIgnoredByPatterns(f) THEN "false"
    ELSE IF IsBinaryFile(f, fault) THEN "false"
    ELSE IF fault = "size" THEN "raise"
    ELSE IF disk[f].size > MaxFileSize THEN "false"
    ELSE "true"

----------------------------------------------------------------------------
(* The aggregator.                                                         *)

LoadContextIgnore(root) ==
    IF Join(root, ContextIgnoreName) \in DOMAIN disk THEN context_ignore ELSE <<>>

RECURSIVE Perms(_)
\* Every order in which the glob may return a set of files.
Perms(S) == IF S = {} THEN {<<>>}
            ELSE UNION {{<<x>> \o p : p \in Perms(S \ {x})} : x \in S}

MatchesInclude(f) ==
    \E i \in 1..Len(include_patterns) : ReSearch(include_patterns[i], f) = "match"

IncludeFilter(files) ==
    IF include_patterns # <<>> THEN SelectSeq(files, MatchesInclude) ELSE files

RECURSIVE Insert(_, _)
Insert(x, s) ==
    IF s = <<>> THEN <<x>>
    ELSE IF StrLess(x, Head(s)) THEN <<x>> \o s
    ELSE <<Head(s)>> \o Insert(x, Tail(s))

\* Variant: the loop visits the files in the order the glob returned them.
SortedByStr_GlobOrder(files) == files

RECURSIVE SortedByStr(_)
\* sorted(all_files, key=lambda x: str(x))
SortedByStr(files) ==
    IF files = <<>> THEN <<>>
    ELSE Insert(files[Len(files)], SortedByStr(SubSeq(files, 1, Len(files) - 1)))

Header(f) == [kind |-> "header", path |-> f]
Content(f) == [kind |-> "content", path |-> f]

Effect(decision, dp, di, ds, dsize, wrote) ==
    [decision |-> decision, dp |-> dp, di |-> di, ds |-> ds, dsize |-> dsize, wrote |-> wrote]

\* Variant: the bucket follows the first check that failed.
RejectedEffect_FirstFailing(f) ==
    IF ExcludeLoop(exclude_patterns, f) = "nomatch" /\ IsIgnoredByPatterns(f)
    THEN Effect("false", 0, 1, 0, 0, <<>>)
    ELSE Effect("false", 0, 0, 1, 0, <<>>)

\* The else branch of the loop body: the bucket of a file the filter rejected.
RejectedEffect(f) ==
    IF IsIgnoredByPatterns(f) THEN Effect("false", 0, 1, 0, 0, <<>>)
    ELSE Effect("false", 0, 0, 1, 0, <<>>)

\* The try block.  fault = "info": get_file_info raises (before any write);
\* fault = "read": open()/read() of the content raises (after the header).
IncludedEffect(f, fault) ==
    IF fault = "info" THEN Effect("true", 0, 0, 1, 0, <<>>)
    ELSE IF fault = "read" THEN Effect("true", 0, 0, 1, 0, <<Header(f)>>)
    ELSE Effect("true", 1, 0, 0, disk[f].size, <<Header(f), Content(f)>>)

\* The self-reference guard.
IsOutputFile(f) == f = output_file

\* Variant: the guard counts the output file and goes on without "continue".
HandleFile_GuardFallsThrough(f, fault) ==
    IF ShouldIncludeFile(f, fault) = "raise" THEN Effect("raise", 0, 0, 0, 0, <<>>)
    ELSE LET g == IF IsOutputFile(f) THEN 1 ELSE 0
             r == IF ShouldIncludeFile(f, fault) = "true" THEN IncludedEffect(f, fault)
                  ELSE RejectedEffect(f) IN
         Effect(r.decision, r.dp, r.di, r.ds + g, r.dsize, r.wrote)

\* One iteration of the loop over the sorted candidates.
HandleFile(f, fault) ==
    IF IsOutputFile(f) THEN Effect("guard", 0, 0, 1, 0, <<>>)
    ELSE LET inc == ShouldIncludeFile(f, fault) IN
         IF inc = "raise" THEN Effect("raise", 0, 0, 0, 0, <<>>)
         ELSE IF inc = "true" THEN IncludedEffect(f, fault)
         ELSE RejectedEffect(f)

\* The I/O operations of one iteration that the environment can make fail
\* (the file is removed or made unreadable during the run): only those that
\* the iteration gets to.  "none": no operation fails.
Faults(f) ==
    IF IsOutputFile(f) \/ ExcludeLoop(exclude_patterns, f) # "nomatch"
       \/ IsIgnoredByPatterns(f) \/ GuessType(f) = "other"
    THEN {"none"}
    ELSE {"none", "probe"}
         \cup (IF disk[f].content = "text" THEN {"size"} ELSE {})
         \cup (IF disk[f].content = "text" /\ disk[f].size <= MaxFileSize
               THEN {"info", "read"} ELSE {})

----------------------------------------------------------------------------
(* The state machine.                                                      *)

NoSummary == <<>>

Init ==
    /\ cwd \in {RootR, RootW}
    /\ context_ignore \in SeqsUpTo(IgnorePool, MaxIgnoreLines)
    /\ disk = IF context_ignore = <<>> THEN Tree
              ELSE (Join(RootR, ContextIgnoreName) :> [size |-> 10, content |-> "text"]) @@ Tree
    /\ pc = "main"
    /\ user_exclude = <<>>
    /\ root_dir = <<>>
    /\ output_file = <<>>
    /\ exclude_patterns = <<>>
    /\ include_patterns = <<>>
    /\ ignore_patterns = <<>>
    /\ discovered = {}
    /\ glob_sorted = TRUE
    /\ all_files = <<>>
    /\ idx = 0
    /\ processed_files = 0
    /\ skipped_files = 0
    /\ ignored_files = 0
    /\ total_size = 0
    /\ out = <<>>
    /\ summary = NoSummary
    /\ handled = <<>>

\* main(): parse the command line and call create_context_file.
Main ==
    /\ pc = "main"
    /\ \E directory \in Directories, o \in Outputs,
          e \in SeqsUpTo(ExcludePool, MaxUserExcludes),
          i \in SeqsUpTo(IncludePool, MaxIncludes) :
          /\ user_exclude' = e
          /\ root_dir' = Resolve(directory)
          /\ output_file' = o
          /\ exclude_patterns' = ParseExclude(e)
          /\ include_patterns' = ParseInclude(i)
    /\ pc' = "scan"
    /\ UNCHANGED <<cwd, disk, context_ignore, ignore_patterns, discovered, glob_sorted,
                   all_files, idx, processed_files, skipped_files, ignored_files,
                   total_size, out, summary, handled>>

\* create_context_file up to the loop: load the ignore file, open the output
\* (which creates it), write the top lines, glob, filter by -i, sort.
Scan ==
    /\ pc = "scan"
    /\ ignore_patterns' = LoadContextIgnore(root_dir)
    /\ disk' = (OutputPath(output_file) :> [size |-> 0, content |-> "text"]) @@ disk
    /\ out' = <<[kind |-> "top", path |-> root_dir]>>
    /\ discovered' = {f \in DOMAIN disk' : StartsWith(f, root_dir \o Slash)}
    /\ \E order \in Perms(discovered') :
          /\ glob_sorted' = (\A k \in 1..(Len(order) - 1) : StrLess(order[k], order[k + 1]))
          /\ all_files' = SortedByStr(IncludeFilter(order))
    /\ pc' = "loop"
    /\ UNCHANGED <<cwd, context_ignore, user_exclude, root_dir, output_file,
                   exclude_patterns, include_patterns, idx, processed_files,
                   skipped_files, ignored_files, total_size, summary, handled>>

\* One iteration of "for file_path in sorted(all_files, ...)".
ProcessFile ==
    /\ pc = "loop"
    /\ idx < Len(all_files)
    /\ \E f \in {all_files[idx + 1]} :
       \E fault \in Faults(f) :
       \E r \in {HandleFile(f, fault)} :
          /\ processed_files' = processed_files + r.dp
          /\ ignored_files' = ignored_files + r.di
          /\ skipped_files' = skipped_files + r.ds
          /\ total_size' = total_size + r.dsize
          /\ out' = out \o r.wrote
          /\ handled' = Append(handled, [path |-> f, fault |-> fault, decision |-> r.decision,
                                         dp |-> r.dp, di |-> r.di, ds |-> r.ds])
          /\ pc' = IF r.decision = "raise" THEN "aborted" ELSE "loop"
    /\ idx' = idx + 1
    /\ UNCHANGED <<cwd, disk, context_ignore, user_exclude, root_dir, output_file,
                   exclude_patterns, include_patterns, ignore_patterns, discovered,
                   glob_sorted, all_files, summary>>

\* The summary block, after the loop.
WriteSummary ==
    /\ pc = "loop"
    /\ idx = Len(all_files)
    /\ summary' = <<processed_files, ignored_files, skipped_files, total_size>>
    /\ out' = Append(out, [kind |-> "summary", path |-> root_dir])
    /\ pc' = "done"
    /\ UNCHANGED <<cwd, disk, context_ignore, user_exclude, root_dir, output_file,
                   exclude_patterns, include_patterns, ignore_patterns, discovered,
                   glob_sorted, all_files, idx, processed_files, skipped_files,
                   ignored_files, total_size, handled>>

Next == Main \/ Scan \/ ProcessFile \/ WriteSummary

Spec == Init /\ [][Next]_vars

----------------------------------------------------------------------------
(* Vocabulary of the properties.                                           *)

Iterations == 1..Len(handled)

Headers == SelectSeq(out, LAMBDA b : b.kind = "header")

HasHeader(f) == \E k \in 1..Len(out) : out[k] = Header(f)

RECURSIVE Total(_, _)
\* The sum of one of the fields dp, di, ds over the iterations 1..n.
Total(field, n) == IF n = 0 THEN 0 ELSE handled[n][field] + Total(field, n - 1)

Completed == {i \in Iterations : handled[i].decision # "raise"}

MatchesSomeExclude(f) ==
    \E k \in 1..Len(exclude_patterns) : ReSearch(exclude_patterns[k], f) = "match"

UnderIgnoredDirectory(f) ==
    \E k \in 1..Len(ignore_patterns) :
        LET pat == ignore_patterns[k]
            dir == SubSeq(pat, 1, Len(pat) - 1) IN
        /\ pat[Len(pat)] = "/"
        /\ (RelPath(f) = dir \/ StartsWith(RelPath(f), dir \o Slash))

\* The four checks of the filter, one at a time: "pass" | "fail" | "raise".
\* They are stated from the description of the filter, not from its code: the
\* exclude check may raise whenever some exclude regex does not compile.
CheckNames == {"exclude", "ignore", "binary", "size"}

Check(name, f, fault) ==
    CASE name = "exclude" ->
            (IF \E k \in 1..Len(exclude_patterns) : ReCompile[exclude_patterns[k]].error THEN "raise"
             ELSE IF MatchesSomeExclude(f) THEN "fail" ELSE "pass")
      [] name = "ignore" -> (IF IsIgnoredByPatterns(f) THEN "fail" ELSE "pass")
      [] name = "binary" ->
            (IF GuessType(f) = "other" \/ fault = "probe" \/ disk[f].content # "text"
             THEN "fail" ELSE "pass")
      [] name = "size" ->
            (IF fault = "size" THEN "raise"
             ELSE IF disk[f].size <= 1000000 THEN "pass" ELSE "fail")

RECURSIVE InOrder(_, _)
\* The filter with its checks evaluated in the given order; result[name] is
\* what the check called name gives.
InOrder(order, result) ==
    IF order = <<>> THEN "true"
    ELSE IF result[Head(order)] = "raise" THEN "raise"
    ELSE IF result[Head(order)] = "fail" THEN "false"
    ELSE InOrder(Tail(order), result)

CheckOrders == Perms(CheckNames)

----------------------------------------------------------------------------
(* Properties.                                                             *)

\* C1 as stated: at the end of a run every discovered regular file has one
\* disposition, so the three counters add up to the number of discovered files.
C1_EveryDiscoveredFileCounted ==
    pc = "done" =>
        /\ processed_files + ignored_files + skipped_files = Cardinality(discovered)
        /\ \A f \in discovered : \E i \in Iterations : handled[i].path = f

\* C1 amended: every candidate (a discovered file that passed the -i filter)
\* whose iteration has completed incremented exactly one counter exactly once;
\* the counters add up to the number of completed iterations, and at the
\* summary to the number of candidates.
C1_EveryCandidateCountedOnce ==
    /\ \A i \in Iterations : handled[i].path = all_files[i]
    /\ \A i, j \in Iterations : handled[i].path = handled[j].path => i = j
    /\ \A i \in Completed :
          /\ handled[i].dp + handled[i].di + handled[i].ds = 1
          /\ {handled[i].dp, handled[i].di, handled[i].ds} \subseteq {0, 1}
    /\ processed_files = Total("dp", Len(handled))
    /\ ignored_files = Total("di", Len(handled))
    /\ skipped_files = Total("ds", Len(handled))
    /\ processed_files + ignored_files + skipped_files = Cardinality(Completed)
    /\ pc = "done" =>
          /\ processed_files + ignored_files + skipped_files = Len(all_files)
          /\ summary = <<processed_files, ignored_files, skipped_files, total_size>>
          /\ (include_patterns = <<>> => Len(all_files) = Cardinality(discovered))

C1_Witness ==
    /\ pc = "done"
    /\ include_patterns # <<>>
    /\ Len(all_files) >= 2
    /\ Len(all_files) < Cardinality(discovered)
    /\ ignored_files > 0 /\ skipped_files > 0

\* C2 as stated: -e values replace the default list.
C2_UserExcludesReplaceDefault ==
    pc # "main" =>
        exclude_patterns = IF user_exclude # <<>> THEN user_exclude ELSE DefaultExclude

\* C2 amended: the exclude list is the default list followed by the -e values
\* in the order given; without -e it is exactly the default list.
C2_UserExcludesFollowDefault ==
    pc # "main" =>
        /\ Len(exclude_patterns) = Len(DefaultExclude) + Len(user_exclude)
        /\ \A k \in 1..Len(DefaultExclude) : exclude_patterns[k] = DefaultExclude[k]
        /\ \A k \in 1..Len(user_exclude) :
              exclude_patterns[Len(DefaultExclude) + k] = user_exclude[k]

C2_Witness == pc = "done" /\ user_exclude # <<>>

\* C3: the output file, when it is among the candidates, gets no block and is
\* counted as skipped, however -o was given.
C3_OutputFileSkipped ==
    \A i \in Completed :
        handled[i].path = OutputPath(output_file) =>
            /\ ~HasHeader(handled[i].path)
            /\ handled[i].ds = 1 /\ handled[i].dp = 0

\* C4: a failure while a file is handled never aborts the run; the file is
\* counted as skipped.
C4_FailureNeverAborts ==
    \A i \in Iterations :
        (handled[i].fault # "none" \/ Check("exclude", handled[i].path, "none") = "raise") =>
            /\ pc # "aborted"
            /\ handled[i].ds = 1

\* C5: a candidate that matches an exclude regex gets no block and increments
\* at most one of the ignored and skipped counters.
C5_ExcludedNeverEmitted ==
    /\ \A k \in 1..Len(all_files) :
          MatchesSomeExclude(all_files[k]) => ~HasHeader(all_files[k])
    /\ \A i \in Iterations :
          MatchesSomeExclude(handled[i].path) =>
              handled[i].dp = 0 /\ handled[i].di + handled[i].ds <= 1

C5_Witness ==
    /\ pc = "done"
    /\ \E i, j \in Iterations :
          /\ MatchesSomeExclude(handled[i].path) /\ IsIgnoredByPatterns(handled[i].path)
          /\ MatchesSomeExclude(handled[j].path) /\ ~IsIgnoredByPatterns(handled[j].path)
          /\ handled[j].ds = 1

\* C6 as stated: a file under a directory named by an ignore pattern is kept
\* out of the output and counted as ignored, not skipped, whatever -o is.
C6_IgnoredDirectoryAlwaysIgnored ==
    \A i \in Completed :
        UnderIgnoredDirectory(handled[i].path) =>
            /\ ~HasHeader(handled[i].path)
            /\ handled[i].di = 1 /\ handled[i].ds = 0

\* C6 amended: the same for every candidate whose path string is not the -o
\* string; such a file never gets a block, is never counted as skipped or
\* processed, and is counted as ignored once its iteration completes.
C6_IgnoredDirectoryExceptOutput ==
    /\ \A k \in 1..Len(all_files) :
          UnderIgnoredDirectory(all_files[k]) => ~HasHeader(all_files[k])
    /\ \A i \in Iterations :
          (UnderIgnoredDirectory(handled[i].path) /\ handled[i].path # output_file) =>
              /\ handled[i].ds = 0 /\ handled[i].dp = 0
              /\ (i \in Completed => handled[i].di = 1)

C6_Witness ==
    /\ pc = "done"
    /\ \E i \in Iterations :
          /\ handled[i].path = FileDN
          /\ UnderIgnoredDirectory(FileDN)
          /\ MatchesSomeExclude(FileDN)
          /\ handled[i].di = 1
    /\ \E i \in Iterations :
          /\ handled[i].path = output_file
          /\ UnderIgnoredDirectory(output_file)

\* C7: the blocks are written in strictly increasing order of the files' full
\* path strings, whatever order the glob returned the files in.
C7_BlocksInPathOrder ==
    \A i, j \in 1..Len(Headers) : i < j => StrLess(Headers[i].path, Headers[j].path)

C7_Witness == pc = "done" /\ ~glob_sorted /\ Len(Headers) >= 3

\* C8 as stated: a rejected candidate is counted as ignored exactly when it
\* matches no exclude regex and matches an ignore pattern; one that matches
\* an exclude regex is counted as skipped.
C8_FirstFailingCheckDecidesBucket ==
    \A i \in Iterations :
        handled[i].decision = "false" =>
            /\ handled[i].di = 1 <=>
                  (~MatchesSomeExclude(handled[i].path) /\ IsIgnoredByPatterns(handled[i].path))
            /\ MatchesSomeExclude(handled[i].path) => handled[i].ds = 1

\* C8 amended: a rejected candidate is counted as ignored exactly when it
\* matches an ignore pattern, whether or not it matches an exclude regex, and
\* as skipped otherwise.
C8_IgnorePatternDecidesBucket ==
    \A i \in Iterations :
        handled[i].decision = "false" =>
            /\ handled[i].di = 1 <=> IsIgnoredByPatterns(handled[i].path)
            /\ handled[i].ds = 1 <=> ~IsIgnoredByPatterns(handled[i].path)
            /\ handled[i].dp = 0

C8_Witness ==
    \E i, k \in Iterations :
        /\ handled[i].decision = "false" /\ handled[i].di = 1
        /\ MatchesSomeExclude(handled[i].path)
        /\ handled[k].decision = "false" /\ handled[k].ds = 1
        /\ ~MatchesSomeExclude(handled[k].path) /\ handled[k].fault = "none"

\* C9: whenever should_include_file returns, it returns true exactly when no
\* exclude regex matches, the ignore matcher says no, the binary detector says
\* no and the size is at most 1,000,000; and the four checks taken in any
\* other order return the same value whenever they return.
C9_FilterIsConjunction ==
    \A i \in Iterations :
        handled[i].decision \in {"true", "false"} =>
            \A result \in {[name \in CheckNames |-> Check(name, handled[i].path, handled[i].fault)]} :
                /\ handled[i].decision = "true" <=> \A name \in CheckNames : result[name] = "pass"
                /\ \A order \in CheckOrders :
                      InOrder(order, result) \in {handled[i].decision, "raise"}

C9_Witness ==
    \E i, j, k \in Iterations :
        /\ handled[i].path = FileA /\ handled[i].decision = "true"
        /\ handled[j].path = FileB /\ handled[j].decision = "false" /\ handled[j].fault = "none"
        /\ handled[k].path = FileDN /\ handled[k].decision = "false"
        /\ ~MatchesSomeExclude(FileDN) /\ ~IsIgnoredByPatterns(FileDN)

\* C10: at the end of a run the number of header blocks in the output is the
\* processed counter of the summary.
C10_HeadersEqualProcessed ==
    pc = "done" => Len(Headers) = summary[1]

====
